---- MODULE Spec2Model ----
(***************************************************************************)
(* Model of proj2_nps.py: the disk-backed request cache (open_cache,       *)
(* save_cache, make_request_with_cache) and the process runs that use it.  *)
(*                                                                         *)
(* A Python str is a sequence of one-character strings.  A Python dict is  *)
(* a sequence of <<key, value>> pairs with distinct keys, in insertion     *)
(* order (the order json.dumps writes them in).  The backing file is a     *)
(* record: st is "missing", "unopenable" (a path open() fails on, for      *)
(* reading and for writing) or "ok", and text is the file's content.       *)
(***************************************************************************)
EXTENDS Integers, Sequences, FiniteSets, TLC

\* ---------------------------------------------------------------- bounds
MaxBody == 1     \* longest response body, in characters
MaxCalls == 2    \* make_request_with_cache calls in one run
MaxRuns == 2     \* process runs over the life of the backing file
MaxInputs == 3   \* answers the user gives to the prompts in one run

Procs == {1, 2}  \* process instances that may use the backing file
Solo == {1}      \* the one instance of the sequential design

QUOTE == "\""
BSLASH == "\\"
\* the characters json.dumps has to escape
BodyChars == {QUOTE, BSLASH}

\* request URLs (make_request_with_cache's baseurl); keys are used verbatim
URLs == { <<"u">>, <<QUOTE>> }

\* the URLs __main__ asks for: the index page (line 130), the page of the
\* state the user names (line 292), the pages of the parks that page lists
\* (line 232) and the places query for a postal code (lines 258-259)
IndexURL == <<"i">>
StateURL == <<"s">>
ParkURL(j) == <<"p">> \o [x \in 1..j |-> "1"]
ApiURL(code) == <<"m">> \o code

RECURSIVE StrsUpTo(_)
StrsUpTo(n) ==
    IF n = 0 THEN { <<>> }
    ELSE LET S == StrsUpTo(n - 1)
         IN  S \cup { Append(s, c) : s \in { x \in S : Len(x) = n - 1 }, c \in BodyChars }

\* what requests.get(baseurl).text can be
Bodies == StrsUpTo(MaxBody)

\* the pages the command loop is run on
MainBodies == { b \in Bodies : \A i \in 1..Len(b) : b[i] = QUOTE }

AllURLs ==
    URLs \cup {IndexURL, StateURL} \cup { ParkURL(j) : j \in 1..MaxBody }
         \cup { ApiURL(code) : code \in MainBodies }

\* ------------------------------------------------------------ Python dict
DictKeys(d) == { d[i][1] : i \in 1..Len(d) }

\* baseurl in cache.keys()
HasKey(d, k) == k \in DictKeys(d)

\* cache[baseurl]
DictGet(d, k) == d[CHOOSE i \in 1..Len(d) : d[i][1] = k][2]

\* variant: the assignment rebinds the cache to a one-entry dict
DictSetFresh(d, k, v) == << <<k, v>> >>

\* cache[baseurl] = v : replace in place, or append a new entry
DictSet(d, k, v) ==
    IF HasKey(d, k)
    THEN [i \in 1..Len(d) |-> IF d[i][1] = k THEN <<k, v>> ELSE d[i]]
    ELSE Append(d, <<k, v>>)

\* dict equality ignores insertion order
DictEq(a, b) ==
    /\ DictKeys(a) = DictKeys(b)
    /\ \A k \in DictKeys(a) : DictGet(a, k) = DictGet(b, k)

\* ------------------------------------------------------------- json.dumps
\* variant: strings are written between quotes without escaping
EscapeNone(s) == s

RECURSIVE Escape(_)
Escape(s) ==
    IF s = <<>> THEN <<>>
    ELSE (IF Head(s) \in {QUOTE, BSLASH} THEN <<BSLASH, Head(s)>> ELSE <<Head(s)>>)
         \o Escape(Tail(s))

EncodeStr(s) == <<QUOTE>> \o Escape(s) \o <<QUOTE>>

RECURSIVE EncodeItems(_)
EncodeItems(d) ==
    IF d = <<>> THEN <<>>
    ELSE EncodeStr(Head(d)[1]) \o <<":", " ">> \o EncodeStr(Head(d)[2])
         \o (IF Tail(d) = <<>> THEN <<>> ELSE <<",", " ">> \o EncodeItems(Tail(d)))

json_dumps(d) == <<"{">> \o EncodeItems(d) \o <<"}">>

\* ------------------------------------------------------------- json.loads
\* The decoder for the texts this program writes, for their damaged forms
\* and for documents that are no mapping: a document is an object whose
\* members are strings, a string, the empty list, null or an integer.
At(t, i) == IF i >= 1 /\ i <= Len(t) THEN t[i] ELSE "EOF"

RECURSIVE SkipWs(_, _)
SkipWs(t, i) == IF At(t, i) = " " THEN SkipWs(t, i + 1) ELSE i

Fail == [ok |-> FALSE, val |-> <<>>, next |-> 0]

\* i is the position after the opening quote
RECURSIVE ScanString(_, _, _)
ScanString(t, i, acc) ==
    IF At(t, i) = "EOF" THEN Fail
    ELSE IF At(t, i) = QUOTE THEN [ok |-> TRUE, val |-> acc, next |-> i + 1]
    ELSE IF At(t, i) = BSLASH
         THEN IF At(t, i + 1) \in {QUOTE, BSLASH}
              THEN ScanString(t, i + 2, Append(acc, t[i + 1]))
              ELSE Fail
    ELSE ScanString(t, i + 1, Append(acc, t[i]))

\* i is the position of the opening quote of a member's key
RECURSIVE ScanMembers(_, _, _)
ScanMembers(t, i, acc) ==
    IF At(t, i) # QUOTE THEN Fail
    ELSE LET k == ScanString(t, i + 1, <<>>)
         IN  IF ~k.ok THEN Fail
             ELSE LET c == SkipWs(t, k.next)
                  IN  IF At(t, c) # ":" THEN Fail
                      ELSE LET s == SkipWs(t, c + 1)
                           IN  IF At(t, s) # QUOTE THEN Fail
                               ELSE LET v == ScanString(t, s + 1, <<>>)
                                    IN  IF ~v.ok THEN Fail
                                        ELSE LET d == DictSet(acc, k.val, v.val)
                                                 e == SkipWs(t, v.next)
                                             IN  IF At(t, e) = "}"
                                                 THEN [ok |-> TRUE, val |-> d, next |-> e + 1]
                                                 ELSE IF At(t, e) = ","
                                                 THEN ScanMembers(t, SkipWs(t, e + 1), d)
                                                 ELSE Fail

\* i is the position after the opening brace
ScanObject(t, i) ==
    LET s == SkipWs(t, i)
    IN  IF At(t, s) = "}" THEN [ok |-> TRUE, val |-> <<>>, next |-> s + 1]
        ELSE ScanMembers(t, s, <<>>)

Digits == {"0", "1", "2", "3", "4", "5", "6", "7", "8", "9"}

RECURSIVE SkipDigits(_, _)
SkipDigits(t, i) == IF At(t, i) \in Digits THEN SkipDigits(t, i + 1) ELSE i

\* i is the position of the first character of a document that is neither
\* an object nor a string
ScanOther(t, i) ==
    IF At(t, i) = "[" /\ At(t, SkipWs(t, i + 1)) = "]"
    THEN [ok |-> TRUE, val |-> <<>>, next |-> SkipWs(t, i + 1) + 1]
    ELSE IF <<At(t, i), At(t, i + 1), At(t, i + 2), At(t, i + 3)>> = <<"n", "u", "l", "l">>
    THEN [ok |-> TRUE, val |-> <<>>, next |-> i + 4]
    ELSE IF At(t, i) \in Digits \ {"0"}
    THEN [ok |-> TRUE, val |-> <<>>, next |-> SkipDigits(t, i)]
    ELSE Fail

\* the Python type of the document that starts with character c
TypeOf(c) ==
    IF c = "{" THEN "dict" ELSE IF c = QUOTE THEN "str"
    ELSE IF c = "[" THEN "list" ELSE IF c = "n" THEN "null" ELSE "int"

\* [ok, isdict, type, val]: ok is FALSE when json.loads raises; val is the
\* mapping or the string, and <<>> for the other types
json_loads(t) ==
    LET s == SkipWs(t, 1)
        r == IF At(t, s) = "{" THEN ScanObject(t, s + 1)
             ELSE IF At(t, s) = QUOTE THEN ScanString(t, s + 1, <<>>)
             ELSE ScanOther(t, s)
    IN  IF r.ok /\ SkipWs(t, r.next) = Len(t) + 1
        THEN [ok |-> TRUE, isdict |-> At(t, s) = "{", type |-> TypeOf(At(t, s)),
              val |-> r.val]
        ELSE [ok |-> FALSE, isdict |-> FALSE, type |-> "dict", val |-> <<>>]

\* ------------------------------------------------------------- open_cache
\* try: open, read, json.loads; except: {}
open_cache(f) ==
    IF f.st # "ok" THEN <<>>
    ELSE LET r == json_loads(f.text)
         IN  IF r.ok THEN r.val ELSE <<>>

\* variant: what is not a mapping is replaced by an empty mapping
open_type_checked(f) == "dict"

\* the Python type of what open_cache returns: the type of the document,
\* and dict for the {} of the except branch
open_type(f) ==
    IF f.st # "ok" THEN "dict"
    ELSE LET r == json_loads(f.text)
         IN  IF r.ok THEN r.type ELSE "dict"

\* ------------------------------------------------------------------ state
VARIABLES
    file,        \* the backing file CACHE_FILENAME
    pc,          \* pc[p]: where process p is
    SITE_CACHE,  \* SITE_CACHE[p]: the process-wide store of p
    baseurl,     \* baseurl[p]: argument of the current make_request_with_cache
    body,        \* body[p]: what requests.get(baseurl).text gave
    page,        \* page[p]: what make_request_with_cache returned
    before,      \* before[p]: the store when the current call was made
    caller,      \* caller[p]: who called save_cache, "mrc" or "path"
    dumped,      \* dumped[p]: dumped_json_cache of the save in progress
    exc,         \* exc[p]: the exception that is propagating, or "none"
    outcome,     \* outcome[p]: "hit" or "miss" for the current call
    loaded,      \* loaded[p]: keys of the store when open_cache made it
    served,      \* served[p]: per key, the page last returned in this run
    calls,       \* calls[p][k]: make_request_with_cache calls for k in this run
    gets,        \* gets[p][k]: requests.get calls for k in this run
    fetched,     \* fetched[k]: requests.get calls for k over all runs
    runs,        \* process runs started so far
    writes,      \* writes[p]: times p opened the file for writing in this run
    loads,       \* loads[p]: open_cache calls of p in this run
    kind,        \* kind[p]: the Python type of what SITE_CACHE[p] is bound to
    fileAt,      \* fileAt[p]: what the backing file held when the fetch path called
    at,          \* at[p]: where the command loop of __main__ is
    todo,        \* todo[p]: parks get_sites_for_state still has to fetch
    num,         \* num[p]: <<n>> when the last input was the integer n, else <<>>
    looked,      \* looked[p]: index of the site the last number was looked up for
    inputs       \* inputs[p]: lines read from the user in this run

vars == <<file, pc, SITE_CACHE, baseurl, body, page, before, caller, dumped,
          exc, outcome, loaded, served, calls, gets, fetched, runs, writes,
          loads, kind, fileAt, at, todo, num, looked, inputs>>

\* the state of the command loop
loop == <<at, todo, num, looked, inputs>>

\* fileAt when no call is under way
NoFile == <<>>

Zero == [k \in AllURLs |-> 0]

RECURSIVE SumOver(_, _)
SumOver(f, S) ==
    IF S = {} THEN 0
    ELSE LET k == CHOOSE x \in S : TRUE IN f[k] + SumOver(f, S \ {k})

\* make_request_with_cache calls of a run so far
CallsMade(c) == SumOver(c, AllURLs)

\* the files a run can find: none yet, an unopenable path, what an earlier
\* run's save_cache wrote, or what an interrupted save_cache left behind
InitDicts == { <<>>, << <<<<"u">>, <<BSLASH>>>> >>, << <<<<QUOTE>>, <<>>>> >> }

InitFiles ==
    { [st |-> "missing", text |-> <<>>], [st |-> "unopenable", text |-> <<>>],
      [st |-> "ok", text |-> <<>>], [st |-> "ok", text |-> <<"{", QUOTE>>] }
    \cup { [st |-> "ok", text |-> json_dumps(d)] : d \in InitDicts }

\* no process runs yet
Fresh ==
    /\ pc = [p \in Procs |-> "off"]
    /\ SITE_CACHE = [p \in Procs |-> <<>>]
    /\ baseurl = [p \in Procs |-> <<>>]
    /\ body = [p \in Procs |-> <<>>]
    /\ page = [p \in Procs |-> <<>>]
    /\ before = [p \in Procs |-> <<>>]
    /\ caller = [p \in Procs |-> "none"]
    /\ dumped = [p \in Procs |-> <<>>]
    /\ exc = [p \in Procs |-> "none"]
    /\ outcome = [p \in Procs |-> "none"]
    /\ loaded = [p \in Procs |-> {}]
    /\ served = [p \in Procs |-> <<>>]
    /\ calls = [p \in Procs |-> Zero]
    /\ gets = [p \in Procs |-> Zero]
    /\ fetched = Zero
    /\ runs = 0
    /\ writes = [p \in Procs |-> 0]
    /\ loads = [p \in Procs |-> 0]
    /\ kind = [p \in Procs |-> "dict"]
    /\ fileAt = [p \in Procs |-> NoFile]
    /\ at = [p \in Procs |-> "boot"]
    /\ todo = [p \in Procs |-> 0]
    /\ num = [p \in Procs |-> <<>>]
    /\ looked = [p \in Procs |-> 0]
    /\ inputs = [p \in Procs |-> 0]

Init == file \in InitFiles /\ Fresh

\* ------------------------------------------------------------ process run
\* variant: open_cache without the try/except, a load error ends the run
StartRunNoCatch(p) ==
    /\ pc[p] = "off"
    /\ runs < MaxRuns
    /\ runs' = runs + 1
    /\ IF file.st = "ok" /\ json_loads(file.text).ok
       THEN /\ SITE_CACHE' = [SITE_CACHE EXCEPT ![p] = json_loads(file.text).val]
            /\ loaded' = [loaded EXCEPT ![p] = DictKeys(json_loads(file.text).val)]
            /\ pc' = [pc EXCEPT ![p] = "imported"]
            /\ exc' = exc
       ELSE /\ exc' = [exc EXCEPT ![p] = "load"]
            /\ pc' = [pc EXCEPT ![p] = "raised"]
            /\ UNCHANGED <<SITE_CACHE, loaded>>
    /\ UNCHANGED <<loop, fileAt, writes, file, baseurl, body, page, before, caller, dumped,
                   outcome, served, calls, gets, fetched>>
    /\ loads' = [loads EXCEPT ![p] = @ + 1]
    /\ kind' = [kind EXCEPT ![p] = open_type(file)]

\* line 38: the module body runs SITE_CACHE = open_cache()
StartRun(p) ==
    /\ pc[p] = "off"
    /\ runs < MaxRuns
    /\ runs' = runs + 1
    /\ SITE_CACHE' = [SITE_CACHE EXCEPT ![p] = open_cache(file)]
    /\ loaded' = [loaded EXCEPT ![p] = DictKeys(open_cache(file))]
    /\ pc' = [pc EXCEPT ![p] = "imported"]
    /\ UNCHANGED <<loop, fileAt, writes, file, baseurl, body, page, before, caller, dumped, exc,
                   outcome, served, calls, gets, fetched>>
    /\ loads' = [loads EXCEPT ![p] = @ + 1]
    /\ kind' = [kind EXCEPT ![p] = open_type(file)]

\* variant: line 283 binds an empty dict instead of what open_cache returned
MainReloadDiscards(p) ==
    /\ pc[p] = "imported"
    /\ SITE_CACHE' = [SITE_CACHE EXCEPT ![p] = <<>>]
    /\ loaded' = [loaded EXCEPT ![p] = DictKeys(open_cache(file))]
    /\ pc' = [pc EXCEPT ![p] = "idle"]
    /\ UNCHANGED <<loop, fileAt, writes, file, baseurl, body, page, before, caller, dumped, exc,
                   outcome, served, calls, gets, fetched, runs>>
    /\ loads' = [loads EXCEPT ![p] = @ + 1]
    /\ kind' = [kind EXCEPT ![p] = "dict"]

\* line 283: __main__ runs SITE_CACHE = open_cache() again
MainReload(p) ==
    /\ pc[p] = "imported"
    /\ SITE_CACHE' = [SITE_CACHE EXCEPT ![p] = open_cache(file)]
    /\ loaded' = [loaded EXCEPT ![p] = DictKeys(open_cache(file))]
    /\ pc' = [pc EXCEPT ![p] = "idle"]
    /\ UNCHANGED <<loop, fileAt, writes, file, baseurl, body, page, before, caller, dumped, exc,
                   outcome, served, calls, gets, fetched, runs>>
    /\ loads' = [loads EXCEPT ![p] = @ + 1]
    /\ kind' = [kind EXCEPT ![p] = open_type(file)]

\* the process is gone: its memory is discarded, the file stays
Gone(p) ==
    /\ pc' = [pc EXCEPT ![p] = "off"]
    /\ SITE_CACHE' = [SITE_CACHE EXCEPT ![p] = <<>>]
    /\ baseurl' = [baseurl EXCEPT ![p] = <<>>]
    /\ body' = [body EXCEPT ![p] = <<>>]
    /\ page' = [page EXCEPT ![p] = <<>>]
    /\ before' = [before EXCEPT ![p] = <<>>]
    /\ caller' = [caller EXCEPT ![p] = "none"]
    /\ dumped' = [dumped EXCEPT ![p] = <<>>]
    /\ exc' = [exc EXCEPT ![p] = "none"]
    /\ outcome' = [outcome EXCEPT ![p] = "none"]
    /\ loaded' = [loaded EXCEPT ![p] = {}]
    /\ served' = [served EXCEPT ![p] = <<>>]
    /\ calls' = [calls EXCEPT ![p] = Zero]
    /\ gets' = [gets EXCEPT ![p] = Zero]
    /\ writes' = [writes EXCEPT ![p] = 0]
    /\ loads' = [loads EXCEPT ![p] = 0]
    /\ kind' = [kind EXCEPT ![p] = "dict"]
    /\ fileAt' = [fileAt EXCEPT ![p] = NoFile]
    /\ at' = [at EXCEPT ![p] = "boot"]
    /\ todo' = [todo EXCEPT ![p] = 0]
    /\ num' = [num EXCEPT ![p] = <<>>]
    /\ looked' = [looked EXCEPT ![p] = 0]
    /\ inputs' = [inputs EXCEPT ![p] = 0]
    /\ UNCHANGED <<file, fetched, runs>>

\* lines 289-290, 306-307: the user types exit
Exit(p) == pc[p] = "idle" /\ Gone(p)

\* nothing catches an exception of a fetch path: the run ends with it
Terminate(p) == pc[p] = "raised" /\ Gone(p)

\* the process is stopped from outside, at any point
Crash(p) == pc[p] \notin {"off", "raised"} /\ Gone(p)

\* ------------------------------------------------ make_request_with_cache
\* variant: a hit returns what the transport gives now
HitRefetch(p, k) ==
    /\ pc[p] = "idle"
    /\ kind[p] = "dict"
    /\ HasKey(SITE_CACHE[p], k)
    /\ \E b \in Bodies :
          /\ page' = [page EXCEPT ![p] = b]
          /\ served' = [served EXCEPT ![p] = DictSet(served[p], k, b)]
    /\ baseurl' = [baseurl EXCEPT ![p] = k]
    /\ before' = [before EXCEPT ![p] = SITE_CACHE[p]]
    /\ outcome' = [outcome EXCEPT ![p] = "hit"]
    /\ calls' = [calls EXCEPT ![p][k] = @ + 1]
    /\ pc' = [pc EXCEPT ![p] = "parsing"]
    /\ UNCHANGED <<loop, loads, kind, writes, file, SITE_CACHE, body, caller, dumped, exc, loaded, gets,
                   fetched, runs>>
    /\ fileAt' = [fileAt EXCEPT ![p] = open_cache(file)]

\* variant: a hit calls requests.get all the same and drops the response
HitFetches(p, k) ==
    /\ pc[p] = "idle"
    /\ kind[p] = "dict"
    /\ HasKey(SITE_CACHE[p], k)
    /\ baseurl' = [baseurl EXCEPT ![p] = k]
    /\ before' = [before EXCEPT ![p] = SITE_CACHE[p]]
    /\ page' = [page EXCEPT ![p] = DictGet(SITE_CACHE[p], k)]
    /\ served' = [served EXCEPT ![p] = DictSet(served[p], k, DictGet(SITE_CACHE[p], k))]
    /\ outcome' = [outcome EXCEPT ![p] = "hit"]
    /\ calls' = [calls EXCEPT ![p][k] = @ + 1]
    /\ gets' = [gets EXCEPT ![p][k] = @ + 1]
    /\ fetched' = [fetched EXCEPT ![k] = @ + 1]
    /\ pc' = [pc EXCEPT ![p] = "parsing"]
    /\ UNCHANGED <<loop, loads, kind, writes, file, SITE_CACHE, body, caller, dumped, exc, loaded, runs>>
    /\ fileAt' = [fileAt EXCEPT ![p] = open_cache(file)]

\* lines 74-76: the key is in the cache
Hit(p, k) ==
    /\ pc[p] = "idle"
    /\ kind[p] = "dict"
    /\ HasKey(SITE_CACHE[p], k)
    /\ baseurl' = [baseurl EXCEPT ![p] = k]
    /\ before' = [before EXCEPT ![p] = SITE_CACHE[p]]
    /\ page' = [page EXCEPT ![p] = DictGet(SITE_CACHE[p], k)]
    /\ served' = [served EXCEPT ![p] = DictSet(served[p], k, DictGet(SITE_CACHE[p], k))]
    /\ outcome' = [outcome EXCEPT ![p] = "hit"]
    /\ calls' = [calls EXCEPT ![p][k] = @ + 1]
    /\ pc' = [pc EXCEPT ![p] = "parsing"]
    /\ UNCHANGED <<loop, loads, kind, writes, file, SITE_CACHE, body, caller, dumped, exc, loaded, gets,
                   fetched, runs>>
    /\ fileAt' = [fileAt EXCEPT ![p] = open_cache(file)]

\* a call of the caller that may ask for any URL, MaxCalls times in a run
CallHit(p, k) == CallsMade(calls[p]) < MaxCalls /\ Hit(p, k)

\* variant: the membership test is missing, every call fetches
MissAlways(p, k) ==
    /\ pc[p] = "idle"
    /\ kind[p] = "dict"
    /\ baseurl' = [baseurl EXCEPT ![p] = k]
    /\ before' = [before EXCEPT ![p] = SITE_CACHE[p]]
    /\ outcome' = [outcome EXCEPT ![p] = "miss"]
    /\ calls' = [calls EXCEPT ![p][k] = @ + 1]
    /\ gets' = [gets EXCEPT ![p][k] = @ + 1]
    /\ fetched' = [fetched EXCEPT ![k] = @ + 1]
    /\ pc' = [pc EXCEPT ![p] = "fetching"]
    /\ UNCHANGED <<loop, loads, kind, writes, file, SITE_CACHE, body, page, caller, dumped, exc, loaded,
                   served, runs>>
    /\ fileAt' = [fileAt EXCEPT ![p] = open_cache(file)]

\* lines 77-79: the key is not in the cache, requests.get is called
Miss(p, k) ==
    /\ pc[p] = "idle"
    /\ kind[p] = "dict"
    /\ ~HasKey(SITE_CACHE[p], k)
    /\ baseurl' = [baseurl EXCEPT ![p] = k]
    /\ before' = [before EXCEPT ![p] = SITE_CACHE[p]]
    /\ outcome' = [outcome EXCEPT ![p] = "miss"]
    /\ calls' = [calls EXCEPT ![p][k] = @ + 1]
    /\ gets' = [gets EXCEPT ![p][k] = @ + 1]
    /\ fetched' = [fetched EXCEPT ![k] = @ + 1]
    /\ pc' = [pc EXCEPT ![p] = "fetching"]
    /\ UNCHANGED <<loop, loads, kind, writes, file, SITE_CACHE, body, page, caller, dumped, exc, loaded,
                   served, runs>>
    /\ fileAt' = [fileAt EXCEPT ![p] = open_cache(file)]

\* a call of the caller that may ask for any URL, MaxCalls times in a run
CallMiss(p, k) == CallsMade(calls[p]) < MaxCalls /\ Miss(p, k)

\* variant: save_cache is called before the response is stored
TransportReturnSaveFirst(p, b) ==
    /\ pc[p] = "fetching"
    /\ body' = [body EXCEPT ![p] = b]
    /\ SITE_CACHE' = [SITE_CACHE EXCEPT ![p] = DictSet(@, baseurl[p], b)]
    /\ dumped' = [dumped EXCEPT ![p] = json_dumps(SITE_CACHE[p])]
    /\ caller' = [caller EXCEPT ![p] = "mrc"]
    /\ pc' = [pc EXCEPT ![p] = "save_open"]
    /\ UNCHANGED <<loop, loads, kind, fileAt, writes, file, baseurl, page, before, exc, outcome, loaded, served,
                   calls, gets, fetched, runs>>

\* variant: the response replaces the store instead of joining it
TransportReturnClobbers(p, b) ==
    /\ pc[p] = "fetching"
    /\ body' = [body EXCEPT ![p] = b]
    /\ SITE_CACHE' = [SITE_CACHE EXCEPT ![p] = << <<baseurl[p], b>> >>]
    /\ dumped' = [dumped EXCEPT ![p] = json_dumps(<< <<baseurl[p], b>> >>)]
    /\ caller' = [caller EXCEPT ![p] = "mrc"]
    /\ pc' = [pc EXCEPT ![p] = "save_open"]
    /\ UNCHANGED <<loop, loads, kind, fileAt, writes, file, baseurl, page, before, exc, outcome, loaded, served,
                   calls, gets, fetched, runs>>

\* line 79: requests.get returns, its text is stored; line 80 calls
\* save_cache(cache), whose line 52 serializes the store
TransportReturn(p, b) ==
    /\ pc[p] = "fetching"
    /\ body' = [body EXCEPT ![p] = b]
    /\ SITE_CACHE' = [SITE_CACHE EXCEPT ![p] = DictSet(@, baseurl[p], b)]
    /\ dumped' = [dumped EXCEPT ![p] = json_dumps(DictSet(SITE_CACHE[p], baseurl[p], b))]
    /\ caller' = [caller EXCEPT ![p] = "mrc"]
    /\ pc' = [pc EXCEPT ![p] = "save_open"]
    /\ UNCHANGED <<loop, loads, kind, fileAt, writes, file, baseurl, page, before, exc, outcome, loaded, served,
                   calls, gets, fetched, runs>>

\* variant: an empty entry is stored for the key before the error goes on
TransportFailPartial(p) ==
    /\ pc[p] = "fetching"
    /\ SITE_CACHE' = [SITE_CACHE EXCEPT ![p] = DictSet(@, baseurl[p], <<>>)]
    /\ exc' = [exc EXCEPT ![p] = "transport"]
    /\ pc' = [pc EXCEPT ![p] = "raised"]
    /\ UNCHANGED <<loop, loads, kind, fileAt, writes, file, baseurl, body, page, before, caller,
                   dumped, outcome, loaded, served, calls, gets, fetched, runs>>

\* line 79: requests.get raises, the assignment does not happen
TransportFail(p) ==
    /\ pc[p] = "fetching"
    /\ exc' = [exc EXCEPT ![p] = "transport"]
    /\ pc' = [pc EXCEPT ![p] = "raised"]
    /\ UNCHANGED <<loop, loads, kind, fileAt, writes, file, SITE_CACHE, baseurl, body, page, before, caller,
                   dumped, outcome, loaded, served, calls, gets, fetched, runs>>

\* line 81: return cache[baseurl]
MissReturn(p) ==
    /\ pc[p] = "save_done"
    /\ caller[p] = "mrc"
    /\ page' = [page EXCEPT ![p] = DictGet(SITE_CACHE[p], baseurl[p])]
    /\ served' = [served EXCEPT ![p] =
                     DictSet(served[p], baseurl[p], DictGet(SITE_CACHE[p], baseurl[p]))]
    /\ pc' = [pc EXCEPT ![p] = "parsing"]
    /\ UNCHANGED <<loop, loads, kind, fileAt, writes, file, SITE_CACHE, baseurl, body, before, caller, dumped,
                   exc, outcome, loaded, calls, gets, fetched, runs>>

\* -------------------------------------------------------------- save_cache
\* how much of the text a buffered write may have put in the file
FlushPoints(t) == {0, Len(t) \div 2, Len(t)}

\* line 53: open(CACHE_FILENAME, "w") creates or truncates the file
SaveOpen(p) ==
    /\ pc[p] = "save_open"
    /\ file.st # "unopenable"
    /\ file' = [st |-> "ok", text |-> <<>>]
    /\ writes' = [writes EXCEPT ![p] = @ + 1]
    /\ pc' = [pc EXCEPT ![p] = "save_write"]
    /\ UNCHANGED <<loop, loads, kind, fileAt, SITE_CACHE, baseurl, body, page, before,
                   caller, dumped, exc, outcome, loaded, served, calls, gets, fetched, runs>>

\* line 53: open raises, the file is as it was
SaveOpenFail(p) ==
    /\ pc[p] = "save_open"
    /\ exc' = [exc EXCEPT ![p] = "save"]
    /\ pc' = [pc EXCEPT ![p] = "raised"]
    /\ UNCHANGED <<loop, loads, kind, fileAt, writes, file, SITE_CACHE, baseurl, body, page, before, caller,
                   dumped, outcome, loaded, served, calls, gets, fetched, runs>>

\* line 54: fw.write(dumped_json_cache)
SaveWrite(p, n) ==
    /\ pc[p] = "save_write"
    /\ n \in FlushPoints(dumped[p])
    /\ file' = [st |-> "ok", text |-> SubSeq(dumped[p], 1, n)]
    /\ pc' = [pc EXCEPT ![p] = "save_close"]
    /\ UNCHANGED <<loop, loads, kind, fileAt, writes, SITE_CACHE, baseurl, body, page, before, caller, dumped,
                   exc, outcome, loaded, served, calls, gets, fetched, runs>>

\* line 54: the write raises (disk full) with part of the text in the file
SaveWriteFail(p, n) ==
    /\ pc[p] = "save_write"
    /\ n \in FlushPoints(dumped[p]) \ {Len(dumped[p])}
    /\ file' = [st |-> "ok", text |-> SubSeq(dumped[p], 1, n)]
    /\ exc' = [exc EXCEPT ![p] = "save"]
    /\ pc' = [pc EXCEPT ![p] = "raised"]
    /\ UNCHANGED <<loop, loads, kind, fileAt, writes, SITE_CACHE, baseurl, body, page, before, caller, dumped,
                   outcome, loaded, served, calls, gets, fetched, runs>>

\* d, and the entries of e under keys d does not have
Merge(d, e) == d \o SelectSeq(e, LAMBDA x : ~HasKey(d, x[1]))

\* variant: save_cache keeps the entries the file had when the fetch path
\* started and the store lacks
SaveCloseMerges(p) ==
    /\ pc[p] = "save_close"
    /\ file' = [st |-> "ok",
                text |-> json_dumps(Merge(SITE_CACHE[p], fileAt[p]))]
    /\ pc' = [pc EXCEPT ![p] = "save_done"]
    /\ UNCHANGED <<loop, loads, kind, fileAt, writes, SITE_CACHE, baseurl, body, page, before, caller, dumped,
                   exc, outcome, loaded, served, calls, gets, fetched, runs>>

\* variant: the file is closed without flushing the buffer
SaveCloseNoFlush(p) ==
    /\ pc[p] = "save_close"
    /\ pc' = [pc EXCEPT ![p] = "save_done"]
    /\ UNCHANGED <<loop, loads, kind, fileAt, writes, file, SITE_CACHE, baseurl, body, page, before, caller,
                   dumped, exc, outcome, loaded, served, calls, gets, fetched, runs>>

\* line 55: fw.close() flushes the rest
SaveClose(p) ==
    /\ pc[p] = "save_close"
    /\ file' = [st |-> "ok", text |-> dumped[p]]
    /\ pc' = [pc EXCEPT ![p] = "save_done"]
    /\ UNCHANGED <<loop, loads, kind, fileAt, writes, SITE_CACHE, baseurl, body, page, before, caller, dumped,
                   exc, outcome, loaded, served, calls, gets, fetched, runs>>

\* ------------------------------------------------------------- fetch paths
\* build_state_url_dict, get_site_instance, get_sites_for_state and
\* get_nearby_places: after make_request_with_cache returns the page is
\* parsed, then save_cache(SITE_CACHE) is called (lines 140, 200, 237, 277)
ParseDone(p) ==
    /\ pc[p] = "parsing"
    /\ dumped' = [dumped EXCEPT ![p] = json_dumps(SITE_CACHE[p])]
    /\ caller' = [caller EXCEPT ![p] = "path"]
    /\ pc' = [pc EXCEPT ![p] = "save_open"]
    /\ UNCHANGED <<loop, loads, kind, fileAt, writes, file, SITE_CACHE, baseurl, body, page, before, exc,
                   outcome, loaded, served, calls, gets, fetched, runs>>

\* the page lacks what the parser looks for (a.find on None, a KeyError)
ParseFail(p) ==
    /\ pc[p] = "parsing"
    /\ exc' = [exc EXCEPT ![p] = "parse"]
    /\ pc' = [pc EXCEPT ![p] = "raised"]
    /\ UNCHANGED <<loop, loads, kind, fileAt, writes, file, SITE_CACHE, baseurl, body, page, before, caller,
                   dumped, outcome, loaded, served, calls, gets, fetched, runs>>

\* lines 141, 202, 238, 278: the fetch path returns
PathBack(p) ==
    /\ pc[p] = "save_done"
    /\ caller[p] = "path"
    /\ baseurl' = [baseurl EXCEPT ![p] = <<>>]
    /\ body' = [body EXCEPT ![p] = <<>>]
    /\ page' = [page EXCEPT ![p] = <<>>]
    /\ before' = [before EXCEPT ![p] = <<>>]
    /\ dumped' = [dumped EXCEPT ![p] = <<>>]
    /\ caller' = [caller EXCEPT ![p] = "none"]
    /\ outcome' = [outcome EXCEPT ![p] = "none"]
    /\ fileAt' = [fileAt EXCEPT ![p] = NoFile]
    /\ pc' = [pc EXCEPT ![p] = "idle"]
    /\ UNCHANGED <<loads, kind, writes, file, SITE_CACHE, exc, loaded, served, calls, gets,
                   fetched, runs>>

\* the fetch path returns to a caller that may go on with any URL
PathReturn(p) == PathBack(p) /\ UNCHANGED loop

\* ---------------------------------------------------------- specification
\* one process instance at a time, run after run, on the same backing file
Next ==
    \E p \in Solo :
        \/ StartRun(p)
        \/ MainReload(p)
        \/ \E k \in URLs : CallHit(p, k)
        \/ \E k \in URLs : CallMiss(p, k)
        \/ \E b \in Bodies : TransportReturn(p, b)
        \/ TransportFail(p)
        \/ MissReturn(p)
        \/ SaveOpen(p)
        \/ SaveOpenFail(p)
        \/ \E n \in 0..Len(dumped[p]) : SaveWrite(p, n)
        \/ \E n \in 0..Len(dumped[p]) : SaveWriteFail(p, n)
        \/ SaveClose(p)
        \/ ParseDone(p)
        \/ ParseFail(p)
        \/ PathReturn(p)
        \/ Exit(p)
        \/ Terminate(p)
        \/ Crash(p)

Spec == Init /\ [][Next]_vars

\* ------------------------------------------------------------ __main__
\* The command loop of lines 281-321. A page is taken for what its parser
\* finds in it: the length of the index page is the number of states it
\* lists, the length of a state page the number of parks it lists, and a
\* park page is the postal code of the park.

\* len(states_dict) after line 284
StateCount(p) ==
    IF HasKey(SITE_CACHE[p], IndexURL) THEN Len(DictGet(SITE_CACHE[p], IndexURL)) ELSE 0

\* len(parklist) after line 293
ParkCount(p) ==
    IF HasKey(SITE_CACHE[p], StateURL) THEN Len(DictGet(SITE_CACHE[p], StateURL)) ELSE 0

\* parklist[j - 1].zipcode, lines 163-168
Zip(p, j) ==
    IF HasKey(SITE_CACHE[p], ParkURL(j)) THEN DictGet(SITE_CACHE[p], ParkURL(j)) ELSE <<>>

\* what the user types at line 288: the name of a state, or something else
StateNames == {"state", "other"}

\* the integers the user types at line 305
Numbers == (0 - 1)..(MaxBody + 1)

\* the URL the fetch path p is in passes to make_request_with_cache
Wanted(p) ==
    IF at[p] = "boot" THEN IndexURL
    ELSE IF at[p] = "sites" THEN StateURL
    ELSE IF at[p] = "park" THEN ParkURL(ParkCount(p) - todo[p] + 1)
    ELSE ApiURL(Zip(p, looked[p]))

\* lines 131, 158, 224, 260: the fetch path calls make_request_with_cache
MainHit(p) ==
    /\ at[p] \in {"boot", "sites", "park", "nearby"}
    /\ Hit(p, Wanted(p))

MainMiss(p) ==
    /\ at[p] \in {"boot", "sites", "park", "nearby"}
    /\ Miss(p, Wanted(p))

\* lines 132-140, 159-200, 261-277: the page is parsed, save_cache is called
MainParse(p) == at[p] \in {"boot", "park", "nearby"} /\ ParseDone(p)

MainParseFail(p) == at[p] \in {"boot", "sites", "park", "nearby"} /\ ParseFail(p)

\* lines 225-230: the state page is parsed, the loop over its parks starts
ParseList(p) ==
    /\ at[p] = "sites"
    /\ pc[p] = "parsing"
    /\ todo' = [todo EXCEPT ![p] = Len(page[p])]
    /\ at' = [at EXCEPT ![p] = IF Len(page[p]) = 0 THEN "list" ELSE "park"]
    /\ baseurl' = [baseurl EXCEPT ![p] = <<>>]
    /\ body' = [body EXCEPT ![p] = <<>>]
    /\ page' = [page EXCEPT ![p] = <<>>]
    /\ before' = [before EXCEPT ![p] = <<>>]
    /\ dumped' = [dumped EXCEPT ![p] = <<>>]
    /\ caller' = [caller EXCEPT ![p] = "none"]
    /\ outcome' = [outcome EXCEPT ![p] = "none"]
    /\ fileAt' = [fileAt EXCEPT ![p] = NoFile]
    /\ pc' = [pc EXCEPT ![p] = "idle"]
    /\ UNCHANGED <<num, looked, inputs, loads, kind, writes, file, SITE_CACHE, exc, loaded,
                   served, calls, gets, fetched, runs>>

\* line 237: get_sites_for_state calls save_cache after the loop
ListSave(p) ==
    /\ at[p] = "list"
    /\ pc[p] = "idle"
    /\ dumped' = [dumped EXCEPT ![p] = json_dumps(SITE_CACHE[p])]
    /\ caller' = [caller EXCEPT ![p] = "path"]
    /\ pc' = [pc EXCEPT ![p] = "save_open"]
    /\ UNCHANGED <<loop, loads, kind, fileAt, writes, file, SITE_CACHE, baseurl, body, page, before, exc,
                   outcome, loaded, served, calls, gets, fetched, runs>>

\* line 141: build_state_url_dict returns, line 288 asks for a state
BuildReturn(p) ==
    /\ at[p] = "boot"
    /\ PathBack(p)
    /\ at' = [at EXCEPT ![p] = "state"]
    /\ UNCHANGED <<todo, num, looked, inputs>>

\* lines 202, 234: get_site_instance returns into the loop of line 230
ParkReturn(p) ==
    /\ at[p] = "park"
    /\ PathBack(p)
    /\ todo' = [todo EXCEPT ![p] = @ - 1]
    /\ at' = [at EXCEPT ![p] = IF todo[p] = 1 THEN "list" ELSE "park"]
    /\ UNCHANGED <<num, looked, inputs>>

\* lines 238, 294-305: get_sites_for_state returns, the list is printed and
\* line 305 asks for a number
ListReturn(p) ==
    /\ at[p] = "list"
    /\ PathBack(p)
    /\ at' = [at EXCEPT ![p] = "number"]
    /\ UNCHANGED <<todo, num, looked, inputs>>

\* line 278: get_nearby_places returns, line 305 asks for a number
NearbyReturn(p) ==
    /\ at[p] = "nearby"
    /\ PathBack(p)
    /\ at' = [at EXCEPT ![p] = "number"]
    /\ UNCHANGED <<todo, num, looked, inputs>>

\* lines 288-302: the user answers the state prompt
StateInput(p, s) ==
    /\ at[p] = "state"
    /\ pc[p] = "idle"
    /\ inputs[p] < MaxInputs
    /\ inputs' = [inputs EXCEPT ![p] = @ + 1]
    /\ num' = [num EXCEPT ![p] = <<>>]
    /\ looked' = [looked EXCEPT ![p] = 0]
    /\ at' = [at EXCEPT ![p] = IF s = "state" /\ StateCount(p) >= 1 THEN "sites" ELSE "state"]
    /\ UNCHANGED <<todo, loads, kind, fileAt, writes, file, pc, SITE_CACHE, baseurl, body, page,
                   before, caller, dumped, exc, outcome, loaded, served, calls, gets, fetched,
                   runs>>

\* lines 308-309: the user types back
BackInput(p) ==
    /\ at[p] = "number"
    /\ pc[p] = "idle"
    /\ inputs[p] < MaxInputs
    /\ inputs' = [inputs EXCEPT ![p] = @ + 1]
    /\ num' = [num EXCEPT ![p] = <<>>]
    /\ looked' = [looked EXCEPT ![p] = 0]
    /\ at' = [at EXCEPT ![p] = "state"]
    /\ UNCHANGED <<todo, loads, kind, fileAt, writes, file, pc, SITE_CACHE, baseurl, body, page,
                   before, caller, dumped, exc, outcome, loaded, served, calls, gets, fetched,
                   runs>>

\* parklist[n - 1] of a list of L sites, as an index from 1; 0 is IndexError
Subscript(n, L) ==
    IF n >= 1 THEN (IF n <= L THEN n ELSE 0)
    ELSE (IF L + n >= 1 THEN L + n ELSE 0)

\* variant: get_nearby_places without the test of line 255
NumberInputNoCheck(p, n) ==
    /\ at[p] = "number"
    /\ pc[p] = "idle"
    /\ inputs[p] < MaxInputs
    /\ inputs' = [inputs EXCEPT ![p] = @ + 1]
    /\ num' = [num EXCEPT ![p] = <<n>>]
    /\ IF n > ParkCount(p)
       THEN /\ looked' = [looked EXCEPT ![p] = 0]
            /\ UNCHANGED <<at, pc, exc>>
       ELSE IF Subscript(n, ParkCount(p)) = 0
       THEN /\ looked' = [looked EXCEPT ![p] = 0]
            /\ exc' = [exc EXCEPT ![p] = "index"]
            /\ pc' = [pc EXCEPT ![p] = "raised"]
            /\ at' = at
       ELSE /\ looked' = [looked EXCEPT ![p] = Subscript(n, ParkCount(p))]
            /\ at' = [at EXCEPT ![p] = "nearby"]
            /\ UNCHANGED <<pc, exc>>
    /\ UNCHANGED <<todo, loads, kind, fileAt, writes, file, SITE_CACHE, baseurl, body, page,
                   before, caller, dumped, outcome, loaded, served, calls, gets, fetched, runs>>

\* lines 311-321: the user types an integer. Line 312 sends n > len(parklist)
\* back to the prompt; line 316 takes parklist[n - 1], which for n <= 0
\* counts from the end of the list or raises IndexError; line 321 calls
\* get_nearby_places, whose line 255 returns at once for an empty zipcode
NumberInput(p, n) ==
    /\ at[p] = "number"
    /\ pc[p] = "idle"
    /\ inputs[p] < MaxInputs
    /\ inputs' = [inputs EXCEPT ![p] = @ + 1]
    /\ num' = [num EXCEPT ![p] = <<n>>]
    /\ IF n > ParkCount(p)
       THEN /\ looked' = [looked EXCEPT ![p] = 0]
            /\ UNCHANGED <<at, pc, exc>>
       ELSE IF Subscript(n, ParkCount(p)) = 0
       THEN /\ looked' = [looked EXCEPT ![p] = 0]
            /\ exc' = [exc EXCEPT ![p] = "index"]
            /\ pc' = [pc EXCEPT ![p] = "raised"]
            /\ at' = at
       ELSE /\ looked' = [looked EXCEPT ![p] = Subscript(n, ParkCount(p))]
            /\ at' = [at EXCEPT ![p] =
                         IF Zip(p, Subscript(n, ParkCount(p))) = <<>> THEN "number" ELSE "nearby"]
            /\ UNCHANGED <<pc, exc>>
    /\ UNCHANGED <<todo, loads, kind, fileAt, writes, file, SITE_CACHE, baseurl, body, page,
                   before, caller, dumped, outcome, loaded, served, calls, gets, fetched, runs>>

\* lines 289-290, 306-307: the user types exit at a prompt
MainExit(p) == at[p] \in {"state", "number"} /\ Exit(p)

\* the files a run of the script starts on
MainInit == Init /\ file.st # "unopenable"

\* the script, run after run on the same backing file, where the network
\* answers and the file can be written
MainNext ==
    \E p \in Solo :
        \/ StartRun(p)
        \/ MainReload(p)
        \/ MainHit(p)
        \/ MainMiss(p)
        \/ \E b \in MainBodies : TransportReturn(p, b)
        \/ MissReturn(p)
        \/ SaveOpen(p)
        \/ \E n \in 0..Len(dumped[p]) : SaveWrite(p, n)
        \/ SaveClose(p)
        \/ MainParse(p)
        \/ MainParseFail(p)
        \/ ParseList(p)
        \/ ListSave(p)
        \/ BuildReturn(p)
        \/ ParkReturn(p)
        \/ ListReturn(p)
        \/ NearbyReturn(p)
        \/ \E s \in StateNames : StateInput(p, s)
        \/ BackInput(p)
        \/ \E n \in Numbers : NumberInput(p, n)
        \/ MainExit(p)
        \/ Terminate(p)

SpecMain == MainInit /\ [][MainNext]_vars

\* ------------------------------------------------- files of other origin
\* well-formed JSON documents that are no mapping: "", [], null and 1
ForeignFiles ==
    { [st |-> "ok", text |-> t] :
        t \in { <<QUOTE, QUOTE>>, <<"[", "]">>, <<"n", "u", "l", "l">>, <<"1">> } }

\* line 74 on a store that is no dict: cache.keys() raises AttributeError
CallForeign(p, k) ==
    /\ pc[p] = "idle"
    /\ kind[p] # "dict"
    /\ CallsMade(calls[p]) < MaxCalls
    /\ baseurl' = [baseurl EXCEPT ![p] = k]
    /\ calls' = [calls EXCEPT ![p][k] = @ + 1]
    /\ exc' = [exc EXCEPT ![p] = "attribute"]
    /\ pc' = [pc EXCEPT ![p] = "raised"]
    /\ UNCHANGED <<loop, loads, kind, fileAt, writes, file, SITE_CACHE, body, page, before, caller,
                   dumped, outcome, loaded, served, gets, fetched, runs>>

ForeignInit ==
    /\ file \in ForeignFiles \cup { f \in InitFiles : f.st # "unopenable" }
    /\ Fresh

\* runs on a backing file that anything may have written, where the
\* network answers and the file can be written
ForeignNext ==
    \E p \in Solo :
        \/ StartRun(p)
        \/ MainReload(p)
        \/ \E k \in URLs : CallHit(p, k)
        \/ \E k \in URLs : CallMiss(p, k)
        \/ \E k \in URLs : CallForeign(p, k)
        \/ \E b \in Bodies : TransportReturn(p, b)
        \/ MissReturn(p)
        \/ SaveOpen(p)
        \/ \E n \in 0..Len(dumped[p]) : SaveWrite(p, n)
        \/ SaveClose(p)
        \/ ParseDone(p)
        \/ PathReturn(p)
        \/ Exit(p)
        \/ Terminate(p)

SpecForeign == ForeignInit /\ [][ForeignNext]_vars

\* ---------------------------------------------------- concurrent instances
\* the backing file when the instances start: none, or one entry
ConcFiles ==
    { [st |-> "missing", text |-> <<>>],
      [st |-> "ok", text |-> json_dumps(<< <<<<"u">>, <<BSLASH>>>> >>)] }

ConcInit == file \in ConcFiles /\ Fresh

\* line 53 when no other instance is between its open and its close
ConcSaveOpen(p) ==
    /\ \A q \in Procs \ {p} : pc[q] \notin {"save_write", "save_close"}
    /\ SaveOpen(p)

\* the one fetch path an instance runs
ConcHit(p, k) == CallsMade(calls[p]) = 0 /\ Hit(p, k)

ConcMiss(p, k) == CallsMade(calls[p]) = 0 /\ Miss(p, k)

\* the instances of Procs side by side on one backing file, each running
\* one fetch path, their steps interleaved, their save_cache calls one
\* after the other and each write in one piece
ConcNext ==
    \E p \in Procs :
        \/ StartRun(p)
        \/ MainReload(p)
        \/ \E k \in URLs : ConcHit(p, k)
        \/ \E k \in URLs : ConcMiss(p, k)
        \/ TransportReturn(p, <<QUOTE>>)
        \/ MissReturn(p)
        \/ ConcSaveOpen(p)
        \/ SaveWrite(p, Len(dumped[p]))
        \/ SaveClose(p)
        \/ ParseDone(p)
        \/ PathReturn(p)

SpecConc == ConcInit /\ [][ConcNext]_vars

\* ------------------------------------------------------------ properties
\* a make_request_with_cache(k, SITE_CACHE) call of p starts in this step
Called(p, k) == calls'[p][k] = calls[p][k] + 1

\* p is back in its caller from a call that missed
MissReturned(p) == pc[p] = "parsing" /\ outcome[p] = "miss"

\* C1: a key that is absent from the store when open_cache made it, and
\* that has been requested once or more in this run, has had exactly one
\* requests.get call in this run.
C1_SingleFetch ==
    \A p \in Procs, k \in URLs :
        (k \notin loaded[p] /\ calls[p][k] >= 1) => gets[p][k] = 1

C1_Witness ==
    \E p \in Procs, k \in URLs :
        k \notin loaded[p] /\ calls[p][k] >= 2 /\ gets[p][k] = 1

\* C2: when a call that missed has returned, open_cache on the backing
\* file gives a mapping that has the key, mapped to the fetched body.
C2_WriteThrough ==
    \A p \in Procs :
        MissReturned(p) =>
            /\ HasKey(open_cache(file), baseurl[p])
            /\ DictGet(open_cache(file), baseurl[p]) = body[p]

C2_Witness ==
    \E p \in Procs :
        MissReturned(p) /\ body[p] # <<>> /\ Len(open_cache(file)) = 2

\* C3: a call for a key that is in the store returns the stored value, the
\* same value the previous call for that key returned in this run, and
\* the store keeps its number of entries.
C3_IdempotentHit ==
    [][\A p \in Procs, k \in URLs :
          (Called(p, k) /\ HasKey(SITE_CACHE[p], k)) =>
              /\ pc'[p] = "parsing"
              /\ page'[p] = DictGet(SITE_CACHE[p], k)
              /\ HasKey(served[p], k) => page'[p] = DictGet(served[p], k)
              /\ Len(SITE_CACHE'[p]) = Len(SITE_CACHE[p])]_vars

C3_Witness ==
    \E p \in Procs :
        /\ pc[p] = "parsing" /\ outcome[p] = "hit"
        /\ calls[p][baseurl[p]] = 2 /\ gets[p][baseurl[p]] = 0
        /\ page[p] # <<>>

\* C4: a call for a key that is in the store makes no requests.get call,
\* leaves the store as it is and does not open or change the backing file.
C4_HitNoSideEffect ==
    [][\A p \in Procs, k \in URLs :
          (Called(p, k) /\ HasKey(SITE_CACHE[p], k)) =>
              /\ gets' = gets /\ fetched' = fetched
              /\ SITE_CACHE' = SITE_CACHE
              /\ file' = file /\ writes' = writes
              /\ pc'[p] \notin {"fetching", "save_open", "save_write", "save_close"}]_vars

C4_Witness ==
    \E p \in Procs :
        /\ pc[p] = "parsing" /\ outcome[p] = "hit"
        /\ writes[p] = 0 /\ fetched[baseurl[p]] = 0

\* C5: when a call that missed has returned, it returned the transport's
\* body, the store maps the key to that body, and the store is the store
\* of before the call with that one entry added.
C5_MissResult ==
    \A p \in Procs :
        MissReturned(p) =>
            /\ page[p] = body[p]
            /\ HasKey(SITE_CACHE[p], baseurl[p])
            /\ DictGet(SITE_CACHE[p], baseurl[p]) = body[p]
            /\ Len(SITE_CACHE[p]) = Len(before[p]) + 1
            /\ DictKeys(SITE_CACHE[p]) = DictKeys(before[p]) \cup {baseurl[p]}
            /\ \A j \in DictKeys(before[p]) :
                  DictGet(SITE_CACHE[p], j) = DictGet(before[p], j)

C5_Witness ==
    \E p \in Procs :
        MissReturned(p) /\ before[p] # <<>> /\ body[p] # <<>>

\* C6: when save_cache(m) has returned, open_cache on the backing file
\* gives a mapping equal to m.
C6_RoundTrip ==
    \A p \in Procs :
        pc[p] = "save_done" => DictEq(open_cache(file), SITE_CACHE[p])

C6_Witness ==
    \E p \in Procs :
        /\ pc[p] = "save_done"
        /\ Len(SITE_CACHE[p]) = 2
        /\ \E i \in 1..2 : SITE_CACHE[p][i][2] \in {<<QUOTE>>, <<BSLASH>>}

\* the file is not there, cannot be opened, or does not parse
BadFile(f) == f.st # "ok" \/ ~json_loads(f.text).ok

\* p runs line 38 or line 283 in this step
LoadStep(p) ==
    \/ pc[p] = "off" /\ pc'[p] # "off"
    \/ pc[p] = "imported" /\ pc'[p] \notin {"imported", "off"}

\* C7: open_cache on a missing, unopenable or unparseable file gives the
\* empty mapping, no exception goes to the caller, and the file is as it
\* was.
C7_LoadRecovery ==
    [][\A p \in Procs :
          (LoadStep(p) /\ BadFile(file)) =>
              /\ SITE_CACHE'[p] = <<>>
              /\ exc'[p] = "none" /\ pc'[p] \in {"imported", "idle"}
              /\ file' = file]_vars

C7_Witness ==
    \E p \in Procs :
        /\ pc[p] = "idle" /\ SITE_CACHE[p] = <<>> /\ writes[p] = 0
        /\ file.st = "ok" /\ file.text # <<>> /\ ~json_loads(file.text).ok

\* C8: when requests.get fails in a call that missed, the exception goes
\* to the caller, the store is the store of before the call, without the
\* key, and the backing file is not opened or changed.
C8_TransportFailure ==
    [][\A p \in Procs :
          (pc[p] = "fetching" /\ exc'[p] = "transport") =>
              /\ pc'[p] = "raised"
              /\ SITE_CACHE'[p] = before[p] /\ before'[p] = before[p]
              /\ ~HasKey(SITE_CACHE'[p], baseurl'[p])
              /\ file' = file /\ writes' = writes]_vars

C8_Witness ==
    \E p \in Procs :
        /\ pc[p] = "raised" /\ exc[p] = "transport"
        /\ SITE_CACHE[p] # <<>> /\ SITE_CACHE[p] = before[p]

\* C9 as stated: over all runs on the backing file, requests.get is
\* called at most once for a URL.
C9_OnceEver == \A k \in URLs : fetched[k] <= 1

\* C9 amended: in every run requests.get is called at most once for a
\* URL, and only for a URL that is absent from the mapping open_cache
\* loaded for that run; so a URL has at most one call per run.
C9_OncePerRun ==
    \A k \in URLs :
        /\ fetched[k] <= runs
        /\ \A p \in Procs :
              /\ gets[p][k] <= 1
              /\ gets[p][k] = 1 => k \notin loaded[p]

C9_Witness ==
    \E p \in Procs, k \in URLs : fetched[k] = 2 /\ gets[p][k] = 1 /\ runs = 2

\* the per-key state of p
KeyState(p, k) ==
    IF HasKey(SITE_CACHE[p], k) THEN "Cached"
    ELSE IF pc[p] = "fetching" /\ baseurl[p] = k THEN "Fetching"
    ELSE "Unseen"

\* Cached keeps the key and its value
CachedStays(p, k) ==
    KeyState(p, k) = "Cached" =>
        /\ HasKey(SITE_CACHE'[p], k)
        /\ DictGet(SITE_CACHE'[p], k) = DictGet(SITE_CACHE[p], k)

\* C10 as stated: while p runs, a key stays where it is or moves
\* Unseen -> Fetching or Fetching -> Cached, and Cached keeps its value.
C10_ForwardOnly ==
    [][\A p \in Procs, k \in URLs :
          (pc[p] # "off" /\ pc'[p] # "off") =>
              /\ \/ KeyState(p, k)' = KeyState(p, k)
                 \/ KeyState(p, k) = "Unseen" /\ KeyState(p, k)' = "Fetching"
                 \/ KeyState(p, k) = "Fetching" /\ KeyState(p, k)' = "Cached"
              /\ CachedStays(p, k)]_vars

\* C10 amended: as stated, and a key also moves Fetching -> Unseen when
\* requests.get fails; no move leaves Cached, and Cached keeps its value.
C10_ForwardOrFailed ==
    [][\A p \in Procs, k \in URLs :
          (pc[p] # "off" /\ pc'[p] # "off") =>
              /\ \/ KeyState(p, k)' = KeyState(p, k)
                 \/ KeyState(p, k) = "Unseen" /\ KeyState(p, k)' = "Fetching"
                 \/ KeyState(p, k) = "Fetching" /\ KeyState(p, k)' = "Cached"
                 \/ /\ KeyState(p, k) = "Fetching" /\ KeyState(p, k)' = "Unseen"
                    /\ exc'[p] = "transport" /\ pc'[p] = "raised"
              /\ CachedStays(p, k)]_vars

C10_Witness ==
    \E p \in Procs :
        /\ pc[p] = "raised" /\ exc[p] = "transport"
        /\ \E k \in DictKeys(SITE_CACHE[p]) : k \notin loaded[p]

\* p is in no make_request_with_cache or save_cache call
Quiescent(p) == pc[p] \in {"imported", "idle", "parsing", "raised"}

\* C12 as stated: whenever p is in no make_request_with_cache or save_cache
\* call, also after a save_cache failure has reached the caller, loading
\* the backing file gives the mapping p has in memory.
C12_AlwaysDurable ==
    \A p \in Procs :
        Quiescent(p) => DictEq(open_cache(file), SITE_CACHE[p])

\* C12 amended: whenever p is in no make_request_with_cache or save_cache
\* call and no save_cache call of this run has failed, loading the backing
\* file gives the mapping p has in memory; after a failed save_cache the
\* run is in its exception and makes no further call.
C12_DurableUnlessSaveFailed ==
    \A p \in Procs :
        /\ (Quiescent(p) /\ exc[p] # "save") =>
               DictEq(open_cache(file), SITE_CACHE[p])
        /\ exc[p] = "save" => pc[p] = "raised"

C12_Witness ==
    \E p \in Procs :
        /\ pc[p] = "idle" /\ writes[p] >= 2
        /\ Len(SITE_CACHE[p]) = 2 /\ DictEq(open_cache(file), SITE_CACHE[p])

\* C13 as stated: between two fetch paths, a run has written the backing
\* file once for each requests.get call it made, and not otherwise.
C13_OneWritePerMiss ==
    \A p \in Procs :
        pc[p] = "idle" => writes[p] = SumOver(gets[p], AllURLs)

\* p is stopped inside save_cache in this step
StoppedInSave(p) ==
    pc[p] \in {"save_write", "save_close", "save_done"} /\ pc'[p] = "off"

\* C14 as stated: when p is stopped after the open, the write or the close
\* of save_cache, loading the backing file gives the mapping the file had
\* when the fetch path started or the mapping being saved.
C14_AtomicSave ==
    [][\A p \in Procs :
          StoppedInSave(p) =>
              \/ DictEq(open_cache(file'), fileAt[p])
              \/ DictEq(open_cache(file'), SITE_CACHE[p])]_vars

\* C18 as stated: a run calls open_cache once.
C18_LoadedOnce == \A p \in Procs : loads[p] <= 1

\* p's number input of this step has a site with an empty zipcode looked up
EmptyCodeLookup(p) ==
    /\ at[p] = "number" /\ num'[p] # <<>> /\ inputs'[p] = inputs[p] + 1
    /\ looked'[p] >= 1 /\ Zip(p, looked'[p]) = <<>>

\* C11: get_nearby_places for a site whose zipcode is empty returns to the
\* number prompt without a make_request_with_cache call: no requests.get,
\* the store is as it was and the backing file is not written.
C11_EmptyCodeShortCircuit ==
    [][\A p \in Procs :
          EmptyCodeLookup(p) =>
              /\ at'[p] = "number" /\ pc'[p] = "idle"
              /\ calls' = calls /\ gets' = gets /\ fetched' = fetched
              /\ SITE_CACHE' = SITE_CACHE
              /\ file' = file /\ writes' = writes]_vars

C11_Witness ==
    \E p \in Procs :
        /\ at[p] = "number" /\ pc[p] = "idle" /\ num[p] # <<>>
        /\ looked[p] >= 1 /\ Zip(p, looked[p]) = <<>>
        /\ HasKey(SITE_CACHE[p], ParkURL(looked[p]))

\* C19 as stated: the number prompt comes after a state page gave a list;
\* after the integer n is entered the n-th site is looked up when
\* 1 <= n <= len(parklist), and otherwise nothing is looked up or fetched
\* and the loop is at the number prompt again.
C19_LookupInRangeOnly ==
    \A p \in Procs :
        /\ at[p] \in {"number", "nearby"} => HasKey(SITE_CACHE[p], StateURL)
        /\ num[p] # <<>> =>
              IF 1 <= num[p][1] /\ num[p][1] <= ParkCount(p)
              THEN looked[p] = num[p][1]
              ELSE looked[p] = 0 /\ at[p] = "number" /\ pc[p] = "idle"

SaveReturns(p) == pc[p] = "save_close" /\ pc'[p] = "save_done"

\* C16: a save_cache call of one instance leaves in the backing file the
\* store of that instance and nothing else, whatever another instance had
\* saved there; so an entry another instance fetched and saved is lost.
C16_OverwriteNoMerge ==
    [][\A p \in Procs :
          SaveReturns(p) => DictEq(open_cache(file'), SITE_CACHE[p])]_vars

\* q fetched k and saved it, p fetched and saved after that, and k is in
\* neither the backing file nor p's store
C16_Witness ==
    \E p \in Procs, q \in Procs, k \in URLs :
        /\ p # q
        /\ gets[q][k] = 1 /\ pc[q] = "idle" /\ HasKey(SITE_CACHE[q], k)
        /\ pc[p] = "save_done" /\ outcome[p] = "miss"
        /\ ~HasKey(SITE_CACHE[p], k)
        /\ ~HasKey(open_cache(file), k)

\* C17 as stated: when a fetch path of an instance that has made no
\* requests.get call comes to its end, loading the backing file gives the
\* mapping that was in the file, when it had one, as the path was called.
C17_HitsKeepFile ==
    [][\A p \in Procs :
          (SaveReturns(p) /\ SumOver(gets[p], AllURLs) = 0 /\ fileAt[p] # <<>>) =>
              DictEq(open_cache(file'), fileAt[p])]_vars

====
